---- MODULE Spec2Model ----
(***************************************************************************)
(* Model of translate.py: the resumable batch-translation pipeline.        *)
(* One process runs main(); it may be killed between batches and between   *)
(* checkpoint writes, and be started again over the same checkpoint tree.  *)
(***************************************************************************)
EXTENDS Integers, Sequences, FiniteSets, TLC

\* ---------------------------------------------------------------- bounds
MaxLen == 5          \* records in the first fold
MaxValLen == 1       \* records in the second fold
MaxBatch == 2        \* largest --batch_size tried
MaxInterval == 4     \* largest --checkpoint_n tried
MaxRuns == 3         \* runs of the script over the same checkpoint tree

\* ------------------------------------------------------------ vocabulary
Folds == <<"train", "validation">>
LangSet == {"en", "xx"}
SupportedLangs == {"en"}
target_lang == "nl"
Unbound == -1        \* a local name of main() that was never assigned

VARIABLES
    batch_size, checkpoint_n, dataset,   \* run configuration and input
    files, dirs,                         \* the checkpoint tree on disk
    run, pc,                             \* run number, position in main()
    fold_i, records_by_lang, lang_i,     \* the two outer loops
    last_checkpoint_n, listing,          \* resume offset, os.listdir result
    translated_texts, cnt, batch,        \* locals of the batch loop
    pbar,                                \* progress bar count
    setup,                               \* collaborators built by this run
    partial,                             \* files opened and not yet dumped
    entries, result,                     \* a directory listing and its offset
    calls, written, done, prevFinished   \* observation of the run

config == <<batch_size, checkpoint_n, dataset>>
disk == <<files, dirs, partial>>
locals == <<fold_i, records_by_lang, lang_i, last_checkpoint_n, listing,
            translated_texts, cnt, batch, pbar, setup>>
probe == <<entries, result>>
history == <<calls, written, done, prevFinished>>
vars == <<config, disk, run, pc, locals, probe, history>>

\* --------------------------------------------------------------- helpers
Min(a, b) == IF a < b THEN a ELSE b

SetMax(S) == CHOOSE m \in S : \A x \in S : x <= m

SetMin(S) == CHOOSE m \in S : \A x \in S : m <= x

Range(s) == {s[i] : i \in 1..Len(s)}

\* records[a:b] of Python, 0-based, clipped to the list
Slice(s, a, b) == SubSeq(s, a + 1, Min(b, Len(s)))

\* A record of fold position i, language l: text is (language, content)
MkRecord(id, l) == [id |-> id, lang |-> l, text |-> <<l, id>>]

MkFold(langs, base) == [i \in 1..Len(langs) |-> MkRecord(base + i, langs[i])]

LangSeqs(n) == UNION {[1..k -> LangSet] : k \in 0..n}

\* --------------------------------------------------------- Translator
\* translate(texts, source_lang, target_lang): a list of the same length
\* and order, or None (here <<"None">>) for an unsupported pair
None == <<"None">>

translate(texts, source_lang, tgt) ==
    IF source_lang \in SupportedLangs
    THEN [i \in 1..Len(texts) |-> <<tgt, texts[i][2]>>]
    ELSE None

\* ------------------------------------------------------ CheckpointStore
\* names of the checkpoint files of a directory, as their offsets
Listdir(loc) == {k[3] : k \in {x \in DOMAIN files : x[1] = loc[1] /\ x[2] = loc[2]}}

\* file names are sequences of characters
DigitChars == <<"0", "1", "2", "3", "4", "5", "6", "7", "8", "9">>

IsDigit(c) == \E i \in 1..Len(DigitChars) : DigitChars[i] = c

DigitVal(c) == (CHOOSE i \in 1..Len(DigitChars) : DigitChars[i] = c) - 1

\* str(n)
RECURSIVE Str(_)
Str(n) ==
    IF n < Len(DigitChars) THEN <<DigitChars[n + 1]>>
    ELSE Str(n \div Len(DigitChars)) \o <<DigitChars[(n % Len(DigitChars)) + 1]>>

\* int(digits)
RECURSIVE ParseInt(_)
ParseInt(ds) ==
    IF ds = <<>> THEN 0
    ELSE ParseInt(SubSeq(ds, 1, Len(ds) - 1)) * Len(DigitChars) + DigitVal(ds[Len(ds)])

UptoPrefix == <<"u", "p", "t", "o", "_">>
JsonWord == <<"j", "s", "o", "n">>

\* f'upto_{n}.json'
FileName(n) == UptoPrefix \o Str(n) \o <<".">> \o JsonWord

\* the pattern r'upto_(\d+).json' applied at the start of the name: the
\* lengths the digit group can take, "." standing for any one character
\* and nothing required after "json"
MatchLens(name) ==
    {d \in 1..Len(name) :
        /\ Len(name) >= Len(UptoPrefix) + d + 1 + Len(JsonWord)
        /\ SubSeq(name, 1, Len(UptoPrefix)) = UptoPrefix
        /\ \A i \in 1..d : IsDigit(name[Len(UptoPrefix) + i])
        /\ SubSeq(name, Len(UptoPrefix) + d + 2,
                  Len(UptoPrefix) + d + 1 + Len(JsonWord)) = JsonWord}

\* re.match(pattern, file)
re_match(name) == MatchLens(name) # {}

\* re.search(pattern, file).group(1): the digit group is greedy
group1(name) ==
    SubSeq(name, Len(UptoPrefix) + 1, Len(UptoPrefix) + SetMax(MatchLens(name)))

\* os.listdir of a checkpoint directory
os_listdir(loc) == {FileName(n) : n \in Listdir(loc)}

\* a resume offset taken from the smallest checkpoint instead of the largest
find_largest_checkpoint_min(names) ==
    LET numbers == {ParseInt(group1(file)) : file \in {f \in names : re_match(f)}}
    IN IF numbers # {} THEN SetMin(numbers) ELSE 0

find_largest_checkpoint(names) ==
    LET numbers == {ParseInt(group1(file)) : file \in {f \in names : re_match(f)}}
    IN IF numbers # {} THEN SetMax(numbers) ELSE 0

\* open(..., 'w') + json.dump: the file is created or replaced
WriteFile(loc, n, content) == (<<loc[1], loc[2], n>> :> content) @@ files

\* ------------------------------------------------------ LanguageGrouper
\* a grouping that puts each record in front of its group
RECURSIVE group_from_prepend(_, _, _)
group_from_prepend(ds, i, grouped) ==
    IF i > Len(ds) THEN grouped
    ELSE LET record == ds[i]
             lang == record.lang
             at == {j \in 1..Len(grouped) : grouped[j].lang = lang}
         IN IF at = {}
            THEN group_from_prepend(ds, i + 1,
                     Append(grouped, [lang |-> lang, records |-> <<record>>]))
            ELSE LET j == CHOOSE x \in at : TRUE
                 IN group_from_prepend(ds, i + 1,
                     [grouped EXCEPT ![j].records = <<record>> \o @])

RECURSIVE group_from(_, _, _)
group_from(ds, i, grouped) ==
    IF i > Len(ds) THEN grouped
    ELSE LET record == ds[i]
             lang == record.lang
             at == {j \in 1..Len(grouped) : grouped[j].lang = lang}
         IN IF at = {}
            THEN group_from(ds, i + 1,
                     Append(grouped, [lang |-> lang, records |-> <<record>>]))
            ELSE LET j == CHOOSE x \in at : TRUE
                 IN group_from(ds, i + 1,
                     [grouped EXCEPT ![j].records = Append(@, record)])

group_records_by_language(ds) == group_from(ds, 1, <<>>)

\* ------------------------------------------------------------- the state
fold == Folds[fold_i]
source_lang == records_by_lang[lang_i].lang
records == records_by_lang[lang_i].records
lang_checkpoint_location == <<fold, source_lang>>

Init ==
    /\ batch_size \in 1..MaxBatch
    /\ checkpoint_n \in 1..MaxInterval
    /\ \E tr \in LangSeqs(MaxLen), va \in LangSeqs(MaxValLen) :
          dataset = [f \in Range(Folds) |->
                        IF f = "train" THEN MkFold(tr, 0)
                        ELSE MkFold(va, Len(tr))]
    /\ files = <<>>
    /\ dirs = {}
    /\ run = 1
    /\ pc = "start"
    /\ fold_i = 0
    /\ records_by_lang = <<>>
    /\ lang_i = 0
    /\ last_checkpoint_n = 0
    /\ listing = {}
    /\ translated_texts = <<>>
    /\ cnt = Unbound
    /\ batch = <<>>
    /\ pbar = 0
    /\ setup = {}
    /\ partial = {}
    /\ entries = {}
    /\ result = Unbound
    /\ calls = <<>>
    /\ written = <<>>
    /\ done = {}
    /\ prevFinished = FALSE

\* the in-memory state of a process that is not running
NoProcess ==
    /\ fold_i' = 0
    /\ records_by_lang' = <<>>
    /\ lang_i' = 0
    /\ last_checkpoint_n' = 0
    /\ listing' = {}
    /\ translated_texts' = <<>>
    /\ cnt' = Unbound
    /\ batch' = <<>>
    /\ pbar' = 0
    /\ setup' = {}

\* the configuration check made after the dataset and the translator are set up
Start_late ==
    /\ pc = "start"
    /\ setup' = {"dataset", "translator"}
    /\ IF checkpoint_n % batch_size # 0
       THEN pc' = "failed" /\ fold_i' = fold_i
       ELSE pc' = "fold" /\ fold_i' = 1
    /\ UNCHANGED <<config, probe, disk, run, records_by_lang, lang_i,
                   last_checkpoint_n, listing, translated_texts, cnt, batch,
                   pbar, history>>

\* lines 94-119: the configuration check, then dataset and translator
Start ==
    /\ pc = "start"
    /\ IF checkpoint_n % batch_size # 0
       THEN pc' = "failed" /\ fold_i' = fold_i /\ setup' = setup
       ELSE pc' = "fold" /\ fold_i' = 1 /\ setup' = {"dataset", "translator"}
    /\ UNCHANGED <<config, probe, disk, run, records_by_lang, lang_i,
                   last_checkpoint_n, listing, translated_texts, cnt, batch,
                   pbar, history>>

\* lines 120-121: the next fold is grouped, or the run ends
NextFold ==
    /\ pc = "fold"
    /\ IF fold_i > Len(Folds)
       THEN /\ pc' = "finished"
            /\ UNCHANGED <<records_by_lang, lang_i>>
       ELSE /\ records_by_lang' = group_records_by_language(dataset[fold])
            /\ lang_i' = 1
            /\ pc' = "lang"
    /\ UNCHANGED <<config, probe, disk, run, fold_i, last_checkpoint_n,
                   listing, translated_texts, cnt, batch, pbar, setup, history>>

\* lines 123-130: Resuming, up to the first test of the batch loop;
\* lines 161-164 when the fold has no further language
Resume ==
    /\ pc = "lang"
    /\ IF lang_i > Len(records_by_lang)
       THEN /\ fold_i' = fold_i + 1
            /\ pc' = "fold"
            /\ UNCHANGED <<dirs, last_checkpoint_n, listing,
                           translated_texts, cnt, pbar>>
       ELSE LET numbers == Listdir(lang_checkpoint_location)
                last == find_largest_checkpoint(os_listdir(lang_checkpoint_location))
            IN /\ dirs' = dirs \cup {lang_checkpoint_location}
               /\ listing' = numbers
               /\ last_checkpoint_n' = last
               /\ translated_texts' = <<>>
               /\ pbar' = pbar + last
               /\ IF last < Len(records)
                  THEN cnt' = last /\ pc' = "batch"
                  ELSE cnt' = cnt /\ pc' = "drain"
               /\ fold_i' = fold_i
    /\ UNCHANGED <<config, probe, files, partial, run, records_by_lang,
                   lang_i, batch, setup, history>>

\* the for statement of line 130 taking its next value, or ending
LoopNext ==
    IF cnt + batch_size < Len(records)
    THEN cnt' = cnt + batch_size /\ pc' = "batch"
    ELSE cnt' = cnt /\ pc' = "drain"

\* lines 132-146: one batch is translated; the test of line 146 decides
\* whether a checkpoint write follows
TranslateBatch ==
    /\ pc = "batch"
    /\ LET b == Slice(records, cnt, cnt + batch_size)
           texts_to_translate == [i \in 1..Len(b) |-> b[i].text]
           translated_batch == translate(texts_to_translate, source_lang, target_lang)
           annotated == [i \in 1..Min(Len(b), Len(translated_batch)) |->
                            [b[i] EXCEPT !.text = translated_batch[i],
                                         !.lang = target_lang]]
       IN /\ calls' = Append(calls, [fold |-> fold, source_lang |-> source_lang,
                                     target_lang |-> target_lang,
                                     texts |-> texts_to_translate,
                                     result |-> translated_batch])
          /\ IF translated_batch # None
             THEN /\ batch' = annotated \o SubSeq(b, Len(annotated) + 1, Len(b))
                  /\ translated_texts' = translated_texts \o annotated
                  /\ records_by_lang' =
                        [records_by_lang EXCEPT ![lang_i].records =
                            [i \in 1..Len(records) |->
                                IF i > cnt /\ i <= cnt + Len(annotated)
                                THEN annotated[i - cnt] ELSE records[i]]]
             ELSE /\ batch' = b
                  /\ UNCHANGED <<translated_texts, records_by_lang>>
    /\ pbar' = pbar + batch_size
    /\ IF (cnt + batch_size) % checkpoint_n = 0 /\ cnt # 0
       THEN pc' = "write" /\ cnt' = cnt
       ELSE LoopNext
    /\ UNCHANGED <<config, probe, disk, run, fold_i, lang_i,
                   last_checkpoint_n, listing, setup, written, done,
                   prevFinished>>

\* lines 147-154: the checkpoint write inside the loop
WriteCheckpoint ==
    /\ pc = "write"
    /\ files' = WriteFile(lang_checkpoint_location, cnt + batch_size, translated_texts)
    /\ written' = Append(written, [loc |-> lang_checkpoint_location,
                                   n |-> cnt + batch_size,
                                   records |-> translated_texts])
    /\ translated_texts' = <<>>
    /\ LoopNext
    /\ UNCHANGED <<config, probe, dirs, partial, run, fold_i,
                   records_by_lang, lang_i, last_checkpoint_n, listing, batch,
                   pbar, setup, calls, done, prevFinished>>

\* lines 156-159: the write after the loop; cnt and batch are whatever the
\* last executed iteration left, and unassigned names raise
Drain ==
    /\ pc = "drain"
    /\ IF cnt = Unbound
       THEN /\ pc' = "failed"
            /\ UNCHANGED <<files, written, done, lang_i>>
       ELSE /\ files' = WriteFile(lang_checkpoint_location, cnt, batch)
            /\ written' = Append(written, [loc |-> lang_checkpoint_location,
                                           n |-> cnt, records |-> batch])
            /\ done' = done \cup {lang_checkpoint_location}
            /\ lang_i' = lang_i + 1
            /\ pc' = "lang"
    /\ UNCHANGED <<config, probe, dirs, partial, run, fold_i,
                   records_by_lang, last_checkpoint_n, listing,
                   translated_texts, cnt, batch, pbar, setup, calls,
                   prevFinished>>

\* the process is killed between batches or between checkpoint writes
Kill ==
    /\ pc \in {"fold", "lang", "batch", "write", "drain"}
    /\ pc' = "killed"
    /\ NoProcess
    /\ UNCHANGED <<config, probe, disk, run, history>>

\* the script is started again over the same dataset and checkpoint tree
Restart ==
    /\ pc \in {"killed", "finished", "failed"}
    /\ run < MaxRuns
    /\ run' = run + 1
    /\ pc' = "start"
    /\ NoProcess
    /\ calls' = <<>>
    /\ written' = <<>>
    /\ done' = {}
    /\ prevFinished' = (pc = "finished")
    /\ UNCHANGED <<config, probe, disk>>

Next ==
    \/ Start
    \/ NextFold
    \/ Resume
    \/ TranslateBatch
    \/ WriteCheckpoint
    \/ Drain
    \/ Kill
    \/ Restart

Spec == Init /\ [][Next]_vars

\* ------------------------------------------- the writes as the file system
\* sees them: open(..., 'w') creates or truncates the file, json.dump then
\* fills it, and the process may also be killed between the two
FileKey(loc, n) == <<loc[1], loc[2], n>>

\* line 148: the file of the checkpoint inside the loop is opened
OpenCheckpoint ==
    /\ pc = "write"
    /\ files' = WriteFile(lang_checkpoint_location, cnt + batch_size, <<>>)
    /\ partial' = partial \cup {FileKey(lang_checkpoint_location, cnt + batch_size)}
    /\ pc' = "dump"
    /\ UNCHANGED <<config, probe, dirs, run, locals, history>>

\* lines 149-154: the buffer is dumped, the file closed, the buffer cleared
DumpCheckpoint ==
    /\ pc = "dump"
    /\ files' = WriteFile(lang_checkpoint_location, cnt + batch_size, translated_texts)
    /\ partial' = partial \ {FileKey(lang_checkpoint_location, cnt + batch_size)}
    /\ written' = Append(written, [loc |-> lang_checkpoint_location,
                                   n |-> cnt + batch_size,
                                   records |-> translated_texts])
    /\ translated_texts' = <<>>
    /\ LoopNext
    /\ UNCHANGED <<config, probe, dirs, run, fold_i, records_by_lang, lang_i,
                   last_checkpoint_n, listing, batch, pbar, setup, calls, done,
                   prevFinished>>

\* lines 157-158: the file of the write after the loop is opened
OpenDrain ==
    /\ pc = "drain"
    /\ IF cnt = Unbound
       THEN /\ pc' = "failed"
            /\ UNCHANGED <<files, partial>>
       ELSE /\ files' = WriteFile(lang_checkpoint_location, cnt, <<>>)
            /\ partial' = partial \cup {FileKey(lang_checkpoint_location, cnt)}
            /\ pc' = "drain_dump"
    /\ UNCHANGED <<config, probe, dirs, run, locals, history>>

\* line 159: the last batch is dumped and the file closed
DumpDrain ==
    /\ pc = "drain_dump"
    /\ files' = WriteFile(lang_checkpoint_location, cnt, batch)
    /\ partial' = partial \ {FileKey(lang_checkpoint_location, cnt)}
    /\ written' = Append(written, [loc |-> lang_checkpoint_location,
                                   n |-> cnt, records |-> batch])
    /\ done' = done \cup {lang_checkpoint_location}
    /\ lang_i' = lang_i + 1
    /\ pc' = "lang"
    /\ UNCHANGED <<config, probe, dirs, run, fold_i, records_by_lang,
                   last_checkpoint_n, listing, translated_texts, cnt, batch,
                   pbar, setup, calls, prevFinished>>

\* the process is killed while a file is open: what json.dump has written
\* so far, some prefix of the records and no closing bracket, stays on disk
KillInCommit ==
    /\ pc \in {"dump", "drain_dump"}
    /\ LET n == IF pc = "dump" THEN cnt + batch_size ELSE cnt
           content == IF pc = "dump" THEN translated_texts ELSE batch
       IN \E k \in 0..Len(content) :
             files' = WriteFile(lang_checkpoint_location, n, SubSeq(content, 1, k))
    /\ pc' = "killed"
    /\ NoProcess
    /\ UNCHANGED <<config, probe, dirs, partial, run, history>>

NextIO ==
    \/ Start
    \/ NextFold
    \/ Resume
    \/ TranslateBatch
    \/ OpenCheckpoint
    \/ DumpCheckpoint
    \/ OpenDrain
    \/ DumpDrain
    \/ Kill
    \/ KillInCommit
    \/ Restart

SpecIO == Init /\ [][NextIO]_vars

\* ---------------------------------------------- find_largest_checkpoint alone
\* names a checkpoint directory may hold, written by the pipeline or not
Chars(w) == CASE w = "upto_" -> UptoPrefix
              [] w = "json" -> JsonWord
              [] w = "bak" -> <<"b", "a", "k">>
              [] w = "notes" -> <<"n", "o", "t", "e", "s">>
              [] w = "txt" -> <<"t", "x", "t">>
              [] OTHER -> <<w>>

RECURSIVE Name(_)
Name(ws) == IF ws = <<>> THEN <<>> ELSE Chars(Head(ws)) \o Name(Tail(ws))

CandidateNames ==
    { Name(<<"upto_", "3", ".", "json">>),
      Name(<<"upto_", "1", "2", ".", "json">>),
      Name(<<"upto_", "0", "0", "4", ".", "json">>),
      Name(<<"upto_", "7", ".", "json", ".", "bak">>),
      Name(<<"upto_", "2", "0", "x", "json">>),
      Name(<<"upto_", "4", "5", "json">>),
      Name(<<"x", "upto_", "9", ".", "json">>),
      Name(<<"upto_", ".", "json">>),
      Name(<<"upto_", "8", ".", "txt">>),
      Name(<<"notes", ".", "txt">>) }

InitDir ==
    /\ Init
    /\ batch_size = 1
    /\ checkpoint_n = 1
    /\ dataset = [f \in Range(Folds) |-> <<>>]

\* os.listdir returns some set of entries
ListEntries ==
    /\ pc = "start"
    /\ result = Unbound
    /\ entries = {}
    /\ \E fs \in SUBSET CandidateNames : fs # {} /\ entries' = fs
    /\ UNCHANGED <<config, disk, run, pc, locals, result, history>>

\* find_largest_checkpoint over the entries listed
Probe ==
    /\ pc = "start"
    /\ result = Unbound
    /\ result' = find_largest_checkpoint(entries)
    /\ UNCHANGED <<config, disk, run, pc, locals, entries, history>>

NextDir ==
    \/ ListEntries
    \/ Probe

SpecDir == InitDir /\ [][NextDir]_vars

\* ------------------------------------------------- vocabulary of the claims
\* the group of a fold and language as the dataset holds it, in input order
Group(loc) == SelectSeq(dataset[loc[1]], LAMBDA r : r.lang = loc[2])

\* a record after a successful translation
Annotated(r) == [r EXCEPT !.text = <<target_lang, r.text[2]>>, !.lang = target_lang]

TranslatedGroup(loc) == [i \in 1..Len(Group(loc)) |-> Annotated(Group(loc)[i])]

FileAt(loc, n) == files[<<loc[1], loc[2], n>>]

RECURSIVE ConcatFiles(_, _)
ConcatFiles(loc, offs) ==
    IF offs = {} THEN <<>>
    ELSE LET m == SetMin(offs)
         IN FileAt(loc, m) \o ConcatFiles(loc, offs \ {m})

\* the group being processed, while the process is inside its state machine
InGroup == pc \in {"batch", "write", "drain"}

\* the translate calls of this run made for the active group
GroupCalls ==
    SelectSeq(calls, LAMBDA c : c.fold = fold /\ c.source_lang = source_lang)

CeilDiv(a, b) == (a + b - 1) \div b

\* C1: once a run has finished a supported group, its checkpoint files,
\* concatenated in increasing offset order, are exactly the translated
\* records 0..L-1 in group order, each exactly once.
C1_CheckpointsCoverGroup ==
    \A loc \in done :
        loc[2] \in SupportedLangs =>
            ConcatFiles(loc, Listdir(loc)) = TranslatedGroup(loc)

\* C2: when the batch loop of a group ends with records in the accumulation
\* buffer, the next step commits exactly that buffer in one checkpoint
\* whose offset is the group length L, and touches no other file.
C2_DrainCommitsBufferAtL ==
    [][(pc = "drain" /\ pc' # "killed" /\ translated_texts # <<>>) =>
          /\ pc' = "lang"
          /\ files' = WriteFile(lang_checkpoint_location, Len(records),
                                translated_texts)
          /\ Len(written') = Len(written) + 1]_vars

\* C3: a group started with checkpoints at o1 < ... < ok gets resume offset
\* ok (0 without checkpoints), and the run submits to the translator
\* exactly the source texts of the records [ok, L), in order, as
\* consecutive batches of B records, only the last one possibly shorter.
C3_ResumeSubmitsRemainder ==
    InGroup =>
        LET ok == IF listing = {} THEN 0 ELSE SetMax(listing)
            g == Group(lang_checkpoint_location)
            L == Len(g)
            todo == IF ok < L THEN L - ok ELSE 0
            reached == IF pc = "drain" THEN CeilDiv(todo, batch_size)
                       ELSE IF pc = "batch" THEN (cnt - ok) \div batch_size
                       ELSE (cnt - ok) \div batch_size + 1
        IN /\ last_checkpoint_n = ok
           /\ Len(GroupCalls) = reached
           /\ \A k \in 1..Len(GroupCalls) :
                 LET from == ok + (k - 1) * batch_size
                     to == Min(from + batch_size, L)
                 IN /\ from < L
                    /\ GroupCalls[k].texts =
                          [i \in 1..(to - from) |-> g[from + i].text]
                    /\ GroupCalls[k].source_lang = g[from + 1].lang

\* C3 witness: a resumed group (two checkpoints listed, 0 < ok < L) whose
\* loop has ended after submitting at least two batches
C3_Witness ==
    /\ pc = "drain"
    /\ Cardinality(listing) >= 2
    /\ last_checkpoint_n > 0
    /\ last_checkpoint_n < Len(records)
    /\ Len(GroupCalls) >= 2

\* C4: in a run that follows a completed run over the same dataset and
\* checkpoint tree, every group resumes at its length, no translate call
\* is made, no checkpoint file is written, and the run does not fail.
C4_IdempotentRestart ==
    prevFinished =>
        /\ calls = <<>>
        /\ written = <<>>
        /\ pc # "failed"
        /\ InGroup => last_checkpoint_n = Len(records)

\* C5: a group whose resume offset is at or beyond its length goes
\* directly to Done: no translate call, no file written, no error, and the
\* run continues with the next group.
C5_ResumeAtEndIsDone ==
    [][(pc = "drain" /\ last_checkpoint_n >= Len(records) /\ pc' # "killed") =>
          /\ pc' = "lang"
          /\ lang_i' = lang_i + 1
          /\ files' = files
          /\ written' = written
          /\ calls' = calls]_vars

\* C6: checkpoints are write-once: a file that exists is never written
\* again and its content never changes.
C6_WriteOnce ==
    [][/\ \A k \in DOMAIN files : k \in DOMAIN files' /\ files'[k] = files[k]
       /\ Len(written') > Len(written) =>
             LET w == written'[Len(written')]
             IN <<w.loc[1], w.loc[2], w.n>> \notin DOMAIN files]_vars

\* C7: wherever the process can be killed inside a group, the records of
\* the group translated in this run and not in any checkpoint file are
\* exactly the accumulation buffer, and they are at most C.
C7_CrashLossBound ==
    InGroup =>
        LET loc == lang_checkpoint_location
            translatedNow == UNION {{t[2] : t \in Range(GroupCalls[k].texts)} :
                                k \in {j \in 1..Len(GroupCalls) :
                                          GroupCalls[j].result # None}}
            inFiles == UNION {{r.id : r \in {x \in Range(FileAt(loc, n)) :
                                                x.lang = target_lang}} :
                                n \in Listdir(loc)}
        IN /\ translatedNow \ inFiles = {r.id : r \in Range(translated_texts)}
           /\ Len(translated_texts) <= checkpoint_n

\* C8: in every checkpoint directory, every checkpoint except the one with
\* the largest offset has an offset that is a multiple of C.
C8_IntervalInvariant ==
    \A loc \in dirs :
        \A n \in Listdir(loc) :
            n # SetMax(Listdir(loc)) => n % checkpoint_n = 0

\* C9: after a run has completed a group with an unsupported pair, the run
\* has not failed and the resume offset of the group equals its length.
C9_OffsetAdvancesOnSkip ==
    \A loc \in done :
        loc[2] \notin SupportedLangs =>
            /\ pc # "failed"
            /\ find_largest_checkpoint(os_listdir(loc)) = Len(Group(loc))

\* C10: every record stored in any checkpoint file is fully annotated
\* (translated text, target language); no record of a batch the translator
\* refused is in any file.
C10_OnlyAnnotatedRecordsStored ==
    \A k \in DOMAIN files :
        \A r \in Range(files[k]) :
            /\ r.lang = target_lang
            /\ r.text[1] = target_lang
            /\ k[2] \in SupportedLangs

\* C11: when C is not a multiple of B the run fails before the dataset is
\* loaded, before a translator is constructed and before any checkpoint
\* directory or file exists; when C is a multiple of B the check raises
\* nothing and the run goes on to load the dataset and the translator.
C11_ConfigCheckedFirst ==
    /\ checkpoint_n % batch_size # 0 =>
          /\ pc \in {"start", "failed"}
          /\ setup = {}
          /\ dirs = {}
          /\ files = <<>>
          /\ calls = <<>>
    /\ (checkpoint_n % batch_size = 0 /\ pc \notin {"start", "killed"}) =>
          setup = {"dataset", "translator"}

\* C11 witness: a run that has failed on the configuration check
C11_Witness ==
    /\ pc = "failed"
    /\ checkpoint_n % batch_size # 0
    /\ setup = {}

\* a name that as a whole has the form upto_<digits>.json
IsCheckpointName(name) ==
    \E d \in 1..Len(name) :
        LET ds == SubSeq(name, Len(UptoPrefix) + 1, Len(UptoPrefix) + d)
        IN /\ Len(name) = Len(UptoPrefix) + d + 1 + Len(JsonWord)
           /\ \A i \in 1..d : IsDigit(ds[i])
           /\ name = UptoPrefix \o ds \o <<".">> \o JsonWord

OffsetOf(name) ==
    ParseInt(SubSeq(name, Len(UptoPrefix) + 1,
                    Len(name) - 1 - Len(JsonWord)))

\* C15: for any set of directory entries the resume offset is the largest N
\* over the entries named exactly upto_<digits>.json, and 0 without such an
\* entry; entries with any other name do not change the result.
C15_ResumeOffsetOfListing ==
    result # Unbound =>
        LET offs == {OffsetOf(f) : f \in {x \in entries : IsCheckpointName(x)}}
        IN result = IF offs = {} THEN 0 ELSE SetMax(offs)

\* C12: a commit is atomic for readers: no file upto_N.json on disk ever
\* holds less than the complete records of its commit, also after a kill
\* during the commit, and no run resumes at N from such a file.
C12_CommitAtomic ==
    /\ \A k \in DOMAIN files : k \notin partial
    /\ (pc \in {"batch", "drain"} /\ last_checkpoint_n \in listing) =>
          FileKey(lang_checkpoint_location, last_checkpoint_n) \notin partial

\* C13: within one run every commit for a group, the one after the loop
\* included, uses an offset greater than the resume offset the group started
\* from and greater than every offset committed earlier for the group.
C13_OffsetsIncrease ==
    [][Len(written') > Len(written) =>
          LET w == written'[Len(written')]
          IN /\ w.n > last_checkpoint_n
             /\ \A i \in 1..Len(written) :
                   written[i].loc = w.loc => written[i].n < w.n]_vars

\* where a record sits in groups g: the pairs (group, index)
PlacesOf(g, r) ==
    UNION {{<<j, k>> : k \in {x \in 1..Len(g[j].records) : g[j].records[x] = r}} :
              j \in 1..Len(g)}

\* C14: group_records_by_language puts every input record in exactly one
\* group, the one of its language tag, exactly once; inside a group the
\* records keep their input order; the groups are in order of the first
\* appearance of their language.
C14_GroupingStable ==
    (pc = "lang" /\ lang_i = 1) =>
        LET ds == dataset[fold]
            g == records_by_lang
            Pos(r) == CHOOSE i \in 1..Len(ds) : ds[i] = r
            FirstPos(l) == SetMin({i \in 1..Len(ds) : ds[i].lang = l})
        IN /\ \A i \in 1..Len(ds) :
                 /\ Cardinality(PlacesOf(g, ds[i])) = 1
                 /\ \A pl \in PlacesOf(g, ds[i]) : g[pl[1]].lang = ds[i].lang
           /\ \A j \in 1..Len(g) :
                 /\ g[j].records # <<>>
                 /\ \A k \in 1..Len(g[j].records) : g[j].records[k] \in Range(ds)
                 /\ \A k1, k2 \in 1..Len(g[j].records) :
                       k1 < k2 => Pos(g[j].records[k1]) < Pos(g[j].records[k2])
           /\ \A j1, j2 \in 1..Len(g) :
                 j1 < j2 => FirstPos(g[j1].lang) < FirstPos(g[j2].lang)

\* C14 witness: a fold of two interleaved languages has just been grouped
C14_Witness ==
    /\ pc = "lang"
    /\ lang_i = 1
    /\ Len(records_by_lang) = 2
    /\ Len(dataset[fold]) >= 4
    /\ dataset[fold][1].lang # dataset[fold][2].lang
    /\ dataset[fold][3].lang = dataset[fold][1].lang
    /\ dataset[fold][4].lang = dataset[fold][2].lang

\* the offset of the latest checkpoint committed for the active group in
\* this run, the resume offset when there is none
LatestCommit ==
    LET mine == SelectSeq(written, LAMBDA w : w.loc = lang_checkpoint_location)
    IN IF mine = <<>> THEN last_checkpoint_n ELSE mine[Len(mine)].n

\* the position the batch loop of the active group has reached
Reached ==
    IF pc = "batch" THEN cnt
    ELSE IF pc = "write" THEN Min(cnt + batch_size, Len(records))
    ELSE Len(records)

\* the translated records of the active group with indices in [s, p)
TranslatedRange(s, p) ==
    IF s >= p THEN <<>>
    ELSE SubSeq(TranslatedGroup(lang_checkpoint_location), s + 1, p)

\* the buffer of a supported group holds the translated records [s, p)
BufferIsUncommittedRange ==
    (InGroup /\ source_lang \in SupportedLangs) =>
        translated_texts = TranslatedRange(LatestCommit, Reached)

\* C16: while a supported group is processed the buffer holds exactly the
\* translated records [s, p), s the latest offset committed for the group
\* in this run (else the resume offset) and p the position reached, and
\* right after every checkpoint write the buffer is empty.
C16_BufferInvariant ==
    [][/\ BufferIsUncommittedRange'
       /\ Len(written') > Len(written) => translated_texts' = <<>>]_vars

\* the ids of the records of a group
GroupIds(loc) == {r.id : r \in Range(Group(loc))}

\* C17: for every checkpoint file upto_N.json of a group of length L, N is
\* at most L and every record of the group stored in it has a group index
\* below N.
C17_OffsetBoundsContent ==
    \A k \in DOMAIN files :
        LET g == Group(<<k[1], k[2]>>)
        IN /\ k[3] <= Len(g)
           /\ \A r \in Range(files[k]) :
                 \A i \in 1..Len(g) : g[i].id = r.id => i - 1 < k[3]

\* C18: groups are isolated: a write into the directory of a group stores
\* records of that group only, under an offset the batch loop of that group
\* produced; nothing left from an earlier group or fold is written.
C18_GroupsIsolated ==
    [][Len(written') > Len(written) =>
          LET w == written'[Len(written')]
          IN /\ \A r \in Range(w.records) : r.id \in GroupIds(w.loc)
             /\ last_checkpoint_n < Len(records)]_vars

\* the number of records of the dataset, the total of the progress bar
Total == Len(dataset["train"]) + Len(dataset["validation"])

\* C19: the reported progress never decreases during a run, is never above
\* the number of records of the dataset, and equals it when a run started
\* without checkpoints completes.
C19_ProgressCountsRecords ==
    [][/\ pc' \notin {"killed", "start"} => pbar' >= pbar
       /\ pbar' <= Total
       /\ (pc' = "finished" /\ run' = 1) => pbar' = Total]_vars

====
